---- MODULE Spec2Model ----
(***************************************************************************)
(* secure-password-utilities: the random-selection layer (random.ts,       *)
(* crypto.ts) and the password composer (index.ts).                        *)
(*                                                                         *)
(* A string is a sequence of UTF-16 code units.  One behaviour is one call *)
(* of an exported function; every byte asked of the external byte source   *)
(* (getRandomBytes) is a nondeterministic choice.                          *)
(***************************************************************************)
EXTENDS Integers, Sequences, FiniteSets, TLC

VARIABLES
    call,       \* the exported function called and its arguments
    pc,         \* position of the call
    stage,      \* createPassword: which generateCharacters call is running (1..5)
    sampling,   \* the running sampler loop: function, length, start, end
    values,     \* values the running sampler loop has produced so far
    result,     \* createPassword's `result` string / randomizeCharacters' `result` array
    i,          \* loop index of the swap loop
    ret,        \* the value returned to the caller
    err,        \* the message of the Error thrown to the caller, in pieces
    drawn,      \* number of bytes taken from the byte source
    rejected,   \* number of candidates the rejection loops have discarded
    stream      \* the bytes a generatePin / generateCharacters call was given, in order

vars == <<call, pc, stage, sampling, values, result, i, ret, err, drawn, rejected, stream>>

----------------------------------------------------------------------------
(* Bounds of the model *)

MaxLen == 2         \* largest password length requested
MaxCount == 1       \* largest exact / minimum count of one category
MaxRejects == 1     \* rejected candidates followed in one call
MaxChars == 3       \* longest string given to randomizeCharacters
MaxValues == 2      \* longest list asked of getRandomNumbersInRange
ByteStride == 85    \* distance between the sampled byte values

----------------------------------------------------------------------------
(* Constants of the program *)

MAXIMUM_ONE_BYTE_VALUE == 256
MAXIMUM_TWO_BYTE_VALUE == 65536

DIGIT_CHARSET == <<48, 49, 50, 51, 52, 53, 54, 55, 56, 57>>
LOWERCASE_CHARSET ==
    <<97, 98, 99, 100, 101, 102, 103, 104, 105, 106, 107, 108, 109,
      110, 111, 112, 113, 114, 115, 116, 117, 118, 119, 120, 121, 122>>
UPPERCASE_CHARSET ==
    <<65, 66, 67, 68, 69, 70, 71, 72, 73, 74, 75, 76, 77,
      78, 79, 80, 81, 82, 83, 84, 85, 86, 87, 88, 89, 90>>
\* the symbols with the letter A in the place of the tilde
SYMBOL_CHARSET_WithLetter ==
    <<33, 34, 35, 36, 37, 38, 39, 40, 41, 42, 43, 44, 45, 46, 47,
      58, 59, 60, 61, 62, 63, 64, 91, 93, 123, 125, 94, 95, 96, 124, 65>>

\* !"#$%&'()*+,-./:;<=>?@[]{}^_`|~
SYMBOL_CHARSET ==
    <<33, 34, 35, 36, 37, 38, 39, 40, 41, 42, 43, 44, 45, 46, 47,
      58, 59, 60, 61, 62, 63, 64, 91, 93, 123, 125, 94, 95, 96, 124, 126>>

----------------------------------------------------------------------------
(* The byte source: getRandomBytes(n) yields n bytes, each in 0..255 *)

AllBytes == 0 .. (MAXIMUM_ONE_BYTE_VALUE - 1)
SampleBytes == {b \in AllBytes : b % ByteStride = 0} \cup {MAXIMUM_ONE_BYTE_VALUE - 1}

----------------------------------------------------------------------------
(* Values *)

NoError == <<>>
NoSampling == [fn |-> "none", length |-> 0, start |-> 0, end |-> 0]

\* A PasswordOptionType value: `type` is what typeof yields, `val` the boolean
\* (1 = true, 0 = false), the number, or the `min` property of the object.  A
\* number is val + half/2: half is 1 for the non-integers n + 0.5, 0 otherwise.
Option(type, val) == [type |-> type, val |-> val, half |-> 0]
Fraction(type, val) == [type |-> type, val |-> val, half |-> 1]
Undefined == Option("undefined", 0)
True == Option("boolean", 1)
False == Option("boolean", 0)
Exact(n) == Option("number", n)
AtLeast(n) == Option("object", n)
String == Option("string", 0)

Categories == {"digits", "symbols", "lowercase", "uppercase"}

\* A per-category entry of the `charset` option: absent, or a string
NoCharset == [given |-> FALSE, chars |-> <<>>]
Override(chars) == [given |-> TRUE, chars |-> chars]
NoCharsetOption == [c \in Categories |-> NoCharset]

SetOf(s) == {s[k] : k \in DOMAIN s}

HasDuplicates(s) == Cardinality(SetOf(s)) < Len(s)

\* number of elements of the sequence s that belong to the set S
CountIn(s, S) == Cardinality({k \in DOMAIN s : s[k] \in S})

\* number of occurrences of each element: the multiset of the sequence s
BagOf(s) == [c \in SetOf(s) |-> Cardinality({k \in DOMAIN s : s[k] = c})]

----------------------------------------------------------------------------
(* index.ts *)

\* generatePassword: a missing option takes its default, true
WithDefaults(options) ==
    [c \in Categories |-> IF options[c].type = "undefined" THEN True ELSE options[c]]

validatePasswordOption(name, option) ==
    IF option.type = "boolean" THEN NoError
    ELSE IF option.type = "number"
    THEN IF option.val < 0
         THEN <<"Invalid option: ", name, " option cannot be a negative number">>
         ELSE NoError
    ELSE IF option.type = "object"
    THEN IF option.val < 0
         THEN <<"Invalid option: ", name,
                " option 'min' property must be a non-negative integer">>
         ELSE NoError
    ELSE <<"Invalid option: ", name, " option must be a boolean, number, or object">>

\* getInitialLengthForOption with a number letting the category take filler too
getInitialLengthForOption_NumberAllowsMore(option) ==
    IF option.type = "boolean" THEN [init |-> 0, half |-> 0, more |-> option.val = 1]
    ELSE IF option.type = "number"
    THEN [init |-> option.val, half |-> option.half, more |-> TRUE]
    ELSE [init |-> option.val, half |-> option.half, more |-> TRUE]

\* getInitialLengthForOption forgetting the minimum of {min: n}
getInitialLengthForOption_IgnoresMin(option) ==
    IF option.type = "boolean" THEN [init |-> 0, half |-> 0, more |-> option.val = 1]
    ELSE IF option.type = "number"
    THEN [init |-> option.val, half |-> option.half, more |-> FALSE]
    ELSE [init |-> 0, half |-> 0, more |-> TRUE]

\* getInitialLengthForOption taking every boolean for true
getInitialLengthForOption_FalseAllowsMore(option) ==
    IF option.type = "boolean" THEN [init |-> 0, half |-> 0, more |-> TRUE]
    ELSE IF option.type = "number"
    THEN [init |-> option.val, half |-> option.half, more |-> FALSE]
    ELSE [init |-> option.val, half |-> option.half, more |-> TRUE]

\* [initial length, more allowed]; the initial length is init + half/2
getInitialLengthForOption(option) ==
    IF option.type = "boolean" THEN [init |-> 0, half |-> 0, more |-> option.val = 1]
    ELSE IF option.type = "number"
    THEN [init |-> option.val, half |-> option.half, more |-> FALSE]
    ELSE [init |-> option.val, half |-> option.half, more |-> TRUE]

\* `sum`, counted in halves
Sum(options) ==
    (2 * getInitialLengthForOption(options.digits).init)
    + getInitialLengthForOption(options.digits).half
    + (2 * getInitialLengthForOption(options.symbols).init)
    + getInitialLengthForOption(options.symbols).half
    + (2 * getInitialLengthForOption(options.lowercase).init)
    + getInitialLengthForOption(options.lowercase).half
    + (2 * getInitialLengthForOption(options.uppercase).init)
    + getInitialLengthForOption(options.uppercase).half

AllExact(options) ==
    /\ ~getInitialLengthForOption(options.digits).more
    /\ ~getInitialLengthForOption(options.symbols).more
    /\ ~getInitialLengthForOption(options.lowercase).more
    /\ ~getInitialLengthForOption(options.uppercase).more

\* LengthMismatch without the check of exact counts that fall short
LengthMismatch_NoShortCheck(length, options) ==
    IF Sum(options) > 2 * length
    THEN <<"Invalid option: Requested characters exceeds expected length">>
    ELSE NoError

\* the mismatch checks that end validatePasswordOptions
LengthMismatch(length, options) ==
    IF Sum(options) > 2 * length
    THEN <<"Invalid option: Requested characters exceeds expected length">>
    ELSE IF AllExact(options) /\ Sum(options) # 2 * length
    THEN <<"Invalid option: Requested less characters than expected length">>
    ELSE NoError

validatePasswordOptions(length, options) ==
    IF length < 1
    THEN <<"Invalid option: length option must be a number greater than or equal to 1">>
    ELSE IF validatePasswordOption("lowercase", options.lowercase) # NoError
    THEN validatePasswordOption("lowercase", options.lowercase)
    ELSE IF validatePasswordOption("uppercase", options.uppercase) # NoError
    THEN validatePasswordOption("uppercase", options.uppercase)
    ELSE IF validatePasswordOption("digits", options.digits) # NoError
    THEN validatePasswordOption("digits", options.digits)
    ELSE IF validatePasswordOption("symbols", options.symbols) # NoError
    THEN validatePasswordOption("symbols", options.symbols)
    ELSE LengthMismatch(length, options)

\* The charset of a category: the standard one, unless the request overrides it
\* (the `charset` option, which the charsets of createPassword stand for here).
Charset(c) ==
    IF call.charset[c].given THEN call.charset[c].chars
    ELSE CASE c = "digits" -> DIGIT_CHARSET
           [] c = "symbols" -> SYMBOL_CHARSET
           [] c = "lowercase" -> LOWERCASE_CHARSET
           [] c = "uppercase" -> UPPERCASE_CHARSET

\* validation of one entry of the `charset` option
validateCharsetOption(name, charset) ==
    IF ~charset.given THEN NoError
    ELSE IF Len(charset.chars) < 2
    THEN <<"Invalid charset option: ", name, " charset must have at least two characters">>
    ELSE IF HasDuplicates(charset.chars)
    THEN <<"Invalid charset option: ", name, " charset contains duplicate characters">>
    ELSE NoError

validateCharsetOptions(charsets) ==
    IF validateCharsetOption("digits", charsets.digits) # NoError
    THEN validateCharsetOption("digits", charsets.digits)
    ELSE IF validateCharsetOption("symbols", charsets.symbols) # NoError
    THEN validateCharsetOption("symbols", charsets.symbols)
    ELSE IF validateCharsetOption("lowercase", charsets.lowercase) # NoError
    THEN validateCharsetOption("lowercase", charsets.lowercase)
    ELSE validateCharsetOption("uppercase", charsets.uppercase)

\* remainingCharset built from the standard charsets whatever the request overrides
remainingCharset_StandardOnly(options) ==
    (IF getInitialLengthForOption(options.digits).more THEN DIGIT_CHARSET ELSE <<>>)
    \o (IF getInitialLengthForOption(options.symbols).more THEN SYMBOL_CHARSET ELSE <<>>)
    \o (IF getInitialLengthForOption(options.lowercase).more THEN LOWERCASE_CHARSET ELSE <<>>)
    \o (IF getInitialLengthForOption(options.uppercase).more THEN UPPERCASE_CHARSET ELSE <<>>)

\* createPassword's remainingCharset
remainingCharset(options) ==
    (IF getInitialLengthForOption(options.digits).more THEN Charset("digits") ELSE <<>>)
    \o (IF getInitialLengthForOption(options.symbols).more THEN Charset("symbols") ELSE <<>>)
    \o (IF getInitialLengthForOption(options.lowercase).more THEN Charset("lowercase") ELSE <<>>)
    \o (IF getInitialLengthForOption(options.uppercase).more THEN Charset("uppercase") ELSE <<>>)

\* The five generateCharacters calls of createPassword, in evaluation order:
\* digits, symbols, lowercase, uppercase, then the remaining characters.
StageCharset(k, options) ==
    CASE k = 1 -> Charset("digits")
      [] k = 2 -> Charset("symbols")
      [] k = 3 -> Charset("lowercase")
      [] k = 4 -> Charset("uppercase")
      [] OTHER -> remainingCharset(options)

\* the whole part of the length argument: the characters the call yields
StageLength(k, options, passwordLength, resultLength) ==
    CASE k = 1 -> getInitialLengthForOption(options.digits).init
      [] k = 2 -> getInitialLengthForOption(options.symbols).init
      [] k = 3 -> getInitialLengthForOption(options.lowercase).init
      [] k = 4 -> getInitialLengthForOption(options.uppercase).init
      [] OTHER -> passwordLength - resultLength

\* The passes of the loop `for (i = 0; i < numBytes; i++)` of getRandomValues for
\* that length argument: a length of n + 0.5 makes n + 1 passes, and the
\* Uint8Array of n elements drops what the last pass stores.
StageDraws(k, options, passwordLength, resultLength) ==
    CASE k = 1 -> getInitialLengthForOption(options.digits).init
                  + getInitialLengthForOption(options.digits).half
      [] k = 2 -> getInitialLengthForOption(options.symbols).init
                  + getInitialLengthForOption(options.symbols).half
      [] k = 3 -> getInitialLengthForOption(options.lowercase).init
                  + getInitialLengthForOption(options.lowercase).half
      [] k = 4 -> getInitialLengthForOption(options.uppercase).init
                  + getInitialLengthForOption(options.uppercase).half
      [] OTHER -> passwordLength - resultLength

\* generatePinError letting the length 0 through
generatePinError_AllowsZero(length) ==
    IF length < 0
    THEN <<"Invalid argument: length argument must be a number greater than or equal to 1">>
    ELSE NoError

\* the length check that opens generatePin
generatePinError(length) ==
    IF length < 1
    THEN <<"Invalid argument: length argument must be a number greater than or equal to 1">>
    ELSE NoError

----------------------------------------------------------------------------
(* crypto.ts *)

\* the cutoff of getRandomValueInRange
byteRangeMax(rangeSize) == rangeSize * (MAXIMUM_ONE_BYTE_VALUE \div rangeSize)

\* the checks that open getRandomValueInRange(start, until)
getRandomValueInRangeError(start, until) ==
    IF start < 0
    THEN <<"Invalid byte range: range start must be at least 0">>
    ELSE IF until - start < 2
    THEN <<"Invalid byte range: range must contain at least two values">>
    ELSE IF until > 256
    THEN <<"Invalid byte range: range until must be at most 256">>
    ELSE NoError

\* The error getRandomValues(numBytes, rangeMax) ends in, if any.  With
\* numBytes >= 1 and rangeMax # 256 its first loop iteration calls
\* getRandomValueInRange(0, rangeMax), whose checks come before its first byte.
getRandomValuesError(numBytes, rangeMax) ==
    IF numBytes < 0
    THEN <<"Invalid number of bytes: number of bytes to return must be at least 0">>
    ELSE IF numBytes = 0 THEN NoError
    ELSE IF rangeMax = 256 THEN NoError
    ELSE getRandomValueInRangeError(0, rangeMax)

----------------------------------------------------------------------------
(* random.ts *)

\* randomNumberMax with the operands of the division exchanged
randomNumberMax_ExchangedOperands(number, maxValue) == number * (number \div maxValue)

\* randomNumberMax taking the whole candidate space: the plain modulo
randomNumberMax_WholeDomain(number, maxValue) == maxValue

\* the cutoff of getRandomNumberLessThan
randomNumberMax(number, maxValue) == number * (maxValue \div number)

needsTwoBytes(number) == number > 256

maxValueFor(number) ==
    IF needsTwoBytes(number) THEN MAXIMUM_TWO_BYTE_VALUE ELSE MAXIMUM_ONE_BYTE_VALUE

\* getTwoByteRandomInteger shifting the second byte: byte1 + (byte2 << 8)
TwoByteInteger_LowByteFirst(byte1, byte2) == byte1 + (byte2 * 256)

\* getTwoByteRandomInteger: (byte1 << 8) + byte2
TwoByteInteger(byte1, byte2) == (byte1 * 256) + byte2

getRandomNumberLessThanError(number) ==
    IF number < 2 \/ number > MAXIMUM_TWO_BYTE_VALUE
    THEN <<"Invalid number: number must be at least two and at most 65536">>
    ELSE NoError

\* getRandomNumbersInRangeError without the check of start
getRandomNumbersInRangeError_NoStartCheck(length, start, end) ==
    IF length < 1
    THEN <<"Invalid argument: length must be a number greater than or equal to 1">>
    ELSE IF end > MAXIMUM_TWO_BYTE_VALUE
    THEN <<"Invalid argument: end must be a number less than or equal to 65536">>
    ELSE IF end - start < 2
    THEN <<"Invalid range: range must contain at least two values">>
    ELSE getRandomNumberLessThanError(end - start)

\* The error getRandomNumbersInRange(length, start, end) ends in, if any: its own
\* checks, then those of the first getRandomNumberLessThan(end - start) call.
getRandomNumbersInRangeError(length, start, end) ==
    IF length < 1
    THEN <<"Invalid argument: length must be a number greater than or equal to 1">>
    ELSE IF start < 0
    THEN <<"Invalid argument: start must be a number greater than or equal to 0">>
    ELSE IF end > MAXIMUM_TWO_BYTE_VALUE
    THEN <<"Invalid argument: end must be a number less than or equal to 65536">>
    ELSE IF end - start < 2
    THEN <<"Invalid range: range must contain at least two values">>
    ELSE getRandomNumberLessThanError(end - start)

\* Swap without the temporary: result[i] = result[j]; result[j] = result[i]
Swap_NoTemp(array, a, b) == [array EXCEPT ![a + 1] = array[b + 1]]

\* a swap that leaves the array as it is
Swap_Nothing(array, a, b) == array

\* the swap of the elements at (0-based) positions a and b
Swap(array, a, b) == [array EXCEPT ![a + 1] = array[b + 1], ![b + 1] = array[a + 1]]

----------------------------------------------------------------------------
(* Steps shared by the calls *)

Throw(e) == pc' = "throw" /\ err' = e

\* CharactersAt putting each character in front of those before it
CharactersAt_Prepending(charset, vals) ==
    [k \in 1 .. Len(vals) |-> charset[vals[Len(vals) + 1 - k] + 1]]

\* The characters charset[v] of the sampled indices, in draw order:
\* the reduce of generateCharacters.
CharactersAt(charset, vals) == [k \in 1 .. Len(vals) |-> charset[vals[k] + 1]]

\* the charset argument of the running generateCharacters call
CurrentCharset ==
    IF call.fn = "generatePassword" THEN StageCharset(stage, WithDefaults(call.options))
    ELSE IF call.fn = "generatePin" THEN DIGIT_CHARSET
    ELSE call.charset

\* generateCharacters(length, charset) as a function of the bytes the byte source
\* yields: a byte below the cutoff gives the next character, any other is dropped.
RECURSIVE generateCharactersOn(_, _, _)
generateCharactersOn(bytes, length, charset) ==
    IF length <= 0 \/ bytes = <<>> THEN <<>>
    ELSE LET rangeMax == Len(charset)
             byte == Head(bytes)
         IN  IF rangeMax = 256
             THEN <<charset[byte + 1]>> \o generateCharactersOn(Tail(bytes), length - 1, charset)
             ELSE IF byte < byteRangeMax(rangeMax)
             THEN <<charset[(byte % rangeMax) + 1]>>
                  \o generateCharactersOn(Tail(bytes), length - 1, charset)
             ELSE generateCharactersOn(Tail(bytes), length, charset)

\* sep?: string, '-' when the argument is missing
NoSeparator == [type |-> "undefined", chars |-> <<>>]
Separator(chars) == [type |-> "string", chars |-> chars]
SeparatorOf(sep) == IF sep.type = "undefined" THEN <<45>> ELSE sep.chars

\* generatePassphrase's checks of its arguments, in order
generatePassphraseError(length, wordlist, sep) ==
    IF length < 1
    THEN <<"Invalid argument: length argument must be a number greater than or equal to 1">>
    ELSE IF Len(wordlist) < 2
    THEN <<"Invalid argument: wordlist argument must be an array with length greater than or equal to 2">>
    ELSE IF sep.type \notin {"undefined", "string"}
    THEN <<"Invalid argument: sep argument must be a string">>
    ELSE NoError

\* the words at the drawn indices; an index outside the list gives no word,
\* which join writes as the empty string
WordsAt(wordlist, vals) ==
    [k \in 1 .. Len(vals) |->
        IF vals[k] \in 0 .. Len(wordlist) - 1 THEN wordlist[vals[k] + 1] ELSE <<>>]

\* words.join(sep)
RECURSIVE Join(_, _)
Join(words, sep) ==
    IF words = <<>> THEN <<>>
    ELSE IF Len(words) = 1 THEN words[1]
    ELSE words[1] \o sep \o Join(Tail(words), sep)

\* A sampler loop has produced its last value: its caller goes on with `vals`.
\* createPassword appends the characters and moves to its next generateCharacters
\* call, or to randomizeCharacters after the fifth; getRandomNumbersInRange called
\* by the user returns the list; randomizeCharacters starts its swap loop.
Deliver(vals) ==
    IF call.fn = "generatePassword" /\ stage \in 1 .. 5
    THEN /\ result' = result \o
                CharactersAt(CurrentCharset,
                             SubSeq(vals, 1, StageLength(stage, WithDefaults(call.options),
                                                         call.length, Len(result))))
         /\ stage' = stage + 1
         /\ pc' = IF stage < 5 THEN "generateCharacters" ELSE "randomizeCharacters"
         /\ values' = <<>>
         /\ sampling' = NoSampling
         /\ UNCHANGED <<i, ret>>
    ELSE IF call.fn \in {"generatePin", "generateCharacters"}
    THEN /\ pc' = "return"
         /\ ret' = CharactersAt(CurrentCharset, vals)
         /\ values' = vals
         /\ sampling' = NoSampling
         /\ UNCHANGED <<stage, result, i>>
    ELSE IF call.fn = "generatePassphrase"
    THEN /\ pc' = "return"
         /\ ret' = Join(WordsAt(call.wordlist, vals), SeparatorOf(call.sep))
         /\ values' = vals
         /\ sampling' = NoSampling
         /\ UNCHANGED <<stage, result, i>>
    ELSE IF call.fn \in {"getRandomNumbersInRange", "getRandomValues"}
    THEN /\ pc' = "return"
         /\ ret' = vals
         /\ values' = vals
         /\ sampling' = NoSampling
         /\ UNCHANGED <<stage, result, i>>
    ELSE /\ pc' = "swap"
         /\ i' = 0
         /\ values' = vals
         /\ sampling' = NoSampling
         /\ UNCHANGED <<stage, result, ret>>

\* One pass of a rejection loop: `nbytes` bytes were drawn; the candidate is either
\* accepted, giving the value v, or discarded.
Candidate(nbytes, accepted, v) ==
    /\ drawn' = drawn + nbytes
    /\ IF accepted
       THEN /\ rejected' = rejected
            /\ IF Len(values) + 1 = sampling.length
               THEN Deliver(Append(values, v))
               ELSE /\ values' = Append(values, v)
                    /\ UNCHANGED <<pc, stage, sampling, result, i, ret>>
       ELSE /\ rejected < MaxRejects
            /\ rejected' = rejected + 1
            /\ UNCHANGED <<pc, stage, sampling, values, result, i, ret>>
    /\ UNCHANGED <<call, err>>

\* the calls whose bytes `stream` keeps
Recorded == call.fn \in {"generatePin", "generateCharacters", "getRandomValues"}

----------------------------------------------------------------------------
(* index.ts and crypto.ts: generatePassword(length, options) *)

\* generatePassword fills in the defaults, createPassword validates
generatePassword ==
    /\ pc = "call"
    /\ call.fn = "generatePassword"
    /\ LET v == validatePasswordOptions(call.length, WithDefaults(call.options))
           e == IF v # NoError THEN v ELSE validateCharsetOptions(call.charset)
       IN  IF e # NoError
           THEN Throw(e) /\ UNCHANGED stage
           ELSE pc' = "generateCharacters" /\ stage' = 1 /\ UNCHANGED err
    /\ UNCHANGED <<call, sampling, values, result, i, ret, drawn, rejected, stream>>

generatePin ==
    /\ pc = "call"
    /\ call.fn = "generatePin"
    /\ IF generatePinError(call.length) # NoError
       THEN Throw(generatePinError(call.length))
       ELSE pc' = "generateCharacters" /\ UNCHANGED err
    /\ UNCHANGED <<call, stage, sampling, values, result, i, ret, drawn, rejected, stream>>

\* generateCharacters(length, charset) up to its call of getRandomValues
generateCharacters ==
    /\ <<call.fn, pc>> \in {<<"generatePassword", "generateCharacters">>,
                            <<"generatePin", "generateCharacters">>,
                            <<"generateCharacters", "call">>}
    /\ LET length == IF call.fn = "generatePassword"
                     THEN StageLength(stage, WithDefaults(call.options),
                                      call.length, Len(result))
                     ELSE call.length
           draws == IF call.fn = "generatePassword"
                    THEN StageDraws(stage, WithDefaults(call.options),
                                    call.length, Len(result))
                    ELSE call.length
           charset == CurrentCharset
       IN  IF length < 0
           THEN /\ Throw(<<"Invalid argument: length argument must be a number greater than or equal to 0">>)
                /\ UNCHANGED <<stage, sampling, values, result, i, ret>>
           ELSE IF Len(charset) < 2
           THEN /\ Throw(<<"Invalid argument: charset argument must be a string with length greater than or equal to 2">>)
                /\ UNCHANGED <<stage, sampling, values, result, i, ret>>
           ELSE IF getRandomValuesError(draws, Len(charset)) # NoError
           THEN /\ Throw(getRandomValuesError(draws, Len(charset)))
                /\ UNCHANGED <<stage, sampling, values, result, i, ret>>
           ELSE IF draws = 0
           THEN Deliver(<<>>) /\ UNCHANGED err
           ELSE /\ pc' = "sample"
                /\ sampling' = [fn |-> "getRandomValues", length |-> draws,
                                start |-> 0, end |-> Len(charset)]
                /\ UNCHANGED <<stage, values, result, i, ret, err>>
    /\ UNCHANGED <<call, drawn, rejected, stream>>

\* One pass of the loop of getRandomValueInRange(0, rangeMax), or one byte of
\* getRandomBytes(numBytes) when rangeMax is 256.
getRandomValueInRange(B) ==
    /\ pc = "sample"
    /\ sampling.fn = "getRandomValues"
    /\ \E byte \in B :
          LET rangeSize == sampling.end - sampling.start
              raw == sampling.end = 256
          IN  /\ Candidate(1,
                           IF raw THEN TRUE ELSE byte < byteRangeMax(rangeSize),
                           IF raw THEN byte ELSE sampling.start + (byte % rangeSize))
              /\ stream' = IF Recorded THEN Append(stream, byte) ELSE stream

\* randomizeCharacters of index.ts, up to its call of getRandomValues
index_randomizeCharacters ==
    /\ <<call.fn, pc>> \in {<<"index.randomizeCharacters", "call">>,
                            <<"generatePassword", "randomizeCharacters">>}
    /\ LET characters == IF pc = "call" THEN call.characters ELSE result
           charactersLength == Len(characters)
           e == getRandomValuesError(charactersLength, charactersLength)
       IN  IF e # NoError
           THEN Throw(e) /\ UNCHANGED <<sampling, result, ret>>
           ELSE IF charactersLength = 0
           THEN /\ pc' = "return"
                /\ ret' = characters
                /\ result' = characters
                /\ UNCHANGED <<sampling, err>>
           ELSE /\ pc' = "sample"
                /\ sampling' = [fn |-> "getRandomValues", length |-> charactersLength,
                                start |-> 0, end |-> charactersLength]
                /\ result' = characters
                /\ UNCHANGED <<ret, err>>
    /\ UNCHANGED <<call, stage, values, i, drawn, rejected, stream>>

\* One pass of the swap loop of randomizeCharacters; after the last, the join
swap ==
    /\ pc = "swap"
    /\ result' = Swap(result, i, values[i + 1])
    /\ i' = i + 1
    /\ IF i + 1 = Len(result)
       THEN pc' = "return" /\ ret' = result'
       ELSE UNCHANGED <<pc, ret>>
    /\ UNCHANGED <<call, stage, sampling, values, err, drawn, rejected, stream>>

\* generatePassphrase(length, wordlist, sep) up to its call of
\* getRandomNumbersInRange(length, 0, wordlist.length)
generatePassphrase ==
    /\ pc = "call"
    /\ call.fn = "generatePassphrase"
    /\ LET v == generatePassphraseError(call.length, call.wordlist, call.sep)
           e == IF v # NoError THEN v
                ELSE getRandomNumbersInRangeError(call.length, 0, Len(call.wordlist))
       IN  IF e # NoError
           THEN Throw(e) /\ UNCHANGED sampling
           ELSE /\ pc' = "sample"
                /\ sampling' = [fn |-> "getRandomNumbersInRange", length |-> call.length,
                                start |-> 0, end |-> Len(call.wordlist)]
                /\ UNCHANGED err
    /\ UNCHANGED <<call, stage, values, result, i, ret, drawn, rejected, stream>>

----------------------------------------------------------------------------
(* random.ts *)

getRandomNumbersInRange ==
    /\ pc = "call"
    /\ call.fn = "getRandomNumbersInRange"
    /\ LET e == getRandomNumbersInRangeError(call.length, call.start, call.end)
       IN  IF e # NoError
           THEN Throw(e) /\ UNCHANGED sampling
           ELSE /\ pc' = "sample"
                /\ sampling' = [fn |-> "getRandomNumbersInRange", length |-> call.length,
                                start |-> call.start, end |-> call.end]
                /\ UNCHANGED err
    /\ UNCHANGED <<call, stage, values, result, i, ret, drawn, rejected, stream>>

\* randomizeCharacters of random.ts, up to its call of getRandomNumbersInRange
randomizeCharacters ==
    /\ pc = "call"
    /\ call.fn = "randomizeCharacters"
    /\ LET charactersLength == Len(call.characters)
           e == getRandomNumbersInRangeError(charactersLength, 0, charactersLength)
       IN  IF charactersLength < 2
           THEN /\ pc' = "return"
                /\ ret' = call.characters
                /\ UNCHANGED <<sampling, result, err>>
           ELSE IF e # NoError
           THEN Throw(e) /\ UNCHANGED <<sampling, result, ret>>
           ELSE /\ pc' = "sample"
                /\ sampling' = [fn |-> "getRandomNumbersInRange",
                                length |-> charactersLength,
                                start |-> 0, end |-> charactersLength]
                /\ result' = call.characters
                /\ UNCHANGED <<ret, err>>
    /\ UNCHANGED <<call, stage, values, i, drawn, rejected, stream>>

\* getRandomNumberLessThan returning the candidate itself, not its remainder
getRandomNumberLessThan_NoModulo(randomNumber, nbytes) ==
    LET number == sampling.end - sampling.start
    IN  Candidate(nbytes,
                  randomNumber < randomNumberMax(number, maxValueFor(number)),
                  sampling.start + randomNumber)

\* One pass of the loop of getRandomNumberLessThan(end - start) on the candidate
\* randomNumber; getRandomNumbersInRange adds start to what it returns.
getRandomNumberLessThan(randomNumber, nbytes) ==
    LET number == sampling.end - sampling.start
    IN  Candidate(nbytes,
                  randomNumber < randomNumberMax(number, maxValueFor(number)),
                  sampling.start + (randomNumber % number))

getOneByteRandomInteger(B) ==
    /\ pc = "sample"
    /\ sampling.fn = "getRandomNumbersInRange"
    /\ ~needsTwoBytes(sampling.end - sampling.start)
    /\ \E byte \in B :
          /\ getRandomNumberLessThan(byte, 1)
          /\ stream' = IF Recorded THEN Append(stream, byte) ELSE stream

getTwoByteRandomInteger(B) ==
    /\ pc = "sample"
    /\ sampling.fn = "getRandomNumbersInRange"
    /\ needsTwoBytes(sampling.end - sampling.start)
    /\ \E byte1, byte2 \in B : getRandomNumberLessThan(TwoByteInteger(byte1, byte2), 2)
    /\ UNCHANGED stream

\* The error the deprecated getRandomValues(numValues, rangeMax) of random.ts ends
\* in, if any: its own checks, then, where it samples, those of its first
\* getRandomNumberLessThan(rangeMax) call.
random_getRandomValuesError(numValues, rangeMax) ==
    IF numValues < 0
    THEN <<"Invalid number of values: number of values to return must be at least 0">>
    ELSE IF rangeMax > 256
    THEN <<"Invalid range max: range max must be a number that is at most 256">>
    ELSE IF numValues = 0 \/ rangeMax = 256
    THEN NoError
    ELSE getRandomNumberLessThanError(rangeMax)

\* getRandomValues(numValues, rangeMax) of random.ts, up to its first draw
random_getRandomValues ==
    /\ pc = "call"
    /\ call.fn = "getRandomValues"
    /\ LET e == random_getRandomValuesError(call.numValues, call.rangeMax)
       IN  IF e # NoError
           THEN Throw(e) /\ UNCHANGED <<sampling, ret>>
           ELSE IF call.numValues = 0
           THEN pc' = "return" /\ ret' = <<>> /\ UNCHANGED <<sampling, err>>
           ELSE /\ pc' = "sample"
                /\ sampling' = [fn |-> IF call.rangeMax = 256
                                       THEN "getRandomBytes"
                                       ELSE "getRandomNumbersInRange",
                                length |-> call.numValues,
                                start |-> 0, end |-> call.rangeMax]
                /\ UNCHANGED <<ret, err>>
    /\ UNCHANGED <<call, stage, values, result, i, drawn, rejected, stream>>

\* One byte of the getRandomBytes(numValues) that getRandomValues returns when
\* rangeMax is 256.
getRandomBytes(B) ==
    /\ pc = "sample"
    /\ sampling.fn = "getRandomBytes"
    /\ \E byte \in B :
          /\ Candidate(1, TRUE, byte)
          /\ stream' = Append(stream, byte)

\* What getRandomNumbersInRange(length, start, end) makes of the bytes it is fed:
\* the values it has produced, and the bytes it has used, when `bytes` are used up
\* or the list is complete.
RECURSIVE getRandomNumbersInRangeOn(_, _, _, _)
getRandomNumbersInRangeOn(bytes, length, start, end) ==
    LET number == end - start
        nbytes == IF needsTwoBytes(number) THEN 2 ELSE 1
    IN  IF length = 0 \/ Len(bytes) < nbytes
        THEN [values |-> <<>>, used |-> 0]
        ELSE LET randomNumber == IF needsTwoBytes(number)
                                 THEN TwoByteInteger(bytes[1], bytes[2])
                                 ELSE bytes[1]
                 accepted == randomNumber < randomNumberMax(number, maxValueFor(number))
                 rest == getRandomNumbersInRangeOn(SubSeq(bytes, nbytes + 1, Len(bytes)),
                                                   IF accepted THEN length - 1 ELSE length,
                                                   start, end)
             IN  [values |-> (IF accepted THEN <<start + (randomNumber % number)>> ELSE <<>>)
                             \o rest.values,
                  used |-> nbytes + rest.used]

----------------------------------------------------------------------------
(* Specifications *)

Start(c) ==
    /\ call = c
    /\ pc = "call"
    /\ stage = 0
    /\ sampling = NoSampling
    /\ values = <<>>
    /\ result = <<>>
    /\ i = 0
    /\ ret = <<>>
    /\ err = NoError
    /\ drawn = 0
    /\ rejected = 0
    /\ stream = <<>>

OptionValues ==
    {True, False} \cup {Exact(n) : n \in 0 .. MaxCount} \cup {AtLeast(n) : n \in 0 .. MaxCount}

Requests == [Categories -> OptionValues] \cup {[c \in Categories |-> Undefined]}

\* the bytes fed to generatePassword: the smallest, a middle and the largest
PasswordBytes == {0, 128, 255}

InitPassword ==
    \E length \in 0 .. MaxLen, options \in Requests :
        Start([fn |-> "generatePassword", length |-> length, options |-> options,
               charset |-> NoCharsetOption])

NextPassword ==
    \/ generatePassword
    \/ generateCharacters
    \/ getRandomValueInRange(PasswordBytes)
    \/ index_randomizeCharacters
    \/ swap

SpecPassword == InitPassword /\ [][NextPassword]_vars

\* every byte for a small range, the sampled bytes for a large one
BytesFor(number) == IF number <= 10 THEN AllBytes ELSE SampleBytes

Ranges ==
    {<<0, 10>>, <<1000, 1010>>, <<11, 50000>>, <<0, 2>>, <<0, 256>>, <<0, 257>>,
     <<0, 65536>>, <<65534, 65536>>, <<3, 200>>,
     <<-1, 10>>, <<0, 65537>>, <<100, 101>>, <<0, 0>>, <<5, 3>>}

InitRange ==
    \E length \in 0 .. MaxValues, range \in Ranges :
        Start([fn |-> "getRandomNumbersInRange", length |-> length,
               start |-> range[1], end |-> range[2]])

NextRange ==
    \/ getRandomNumbersInRange
    \/ getOneByteRandomInteger(BytesFor(sampling.end - sampling.start))
    \/ getTwoByteRandomInteger(SampleBytes)

SpecRange == InitRange /\ [][NextRange]_vars

\* a b #
Alphabet == {97, 98, 35}

Strings == UNION {[1 .. n -> Alphabet] : n \in 0 .. MaxChars}

InitShuffle ==
    \E fn \in {"randomizeCharacters", "index.randomizeCharacters"}, characters \in Strings :
        Start([fn |-> fn, characters |-> characters])

NextShuffle ==
    \/ randomizeCharacters
    \/ index_randomizeCharacters
    \/ getOneByteRandomInteger(AllBytes)
    \/ getRandomValueInRange(AllBytes)
    \/ swap

SpecShuffle == InitShuffle /\ [][NextShuffle]_vars

\* n distinct characters
Wide(n) == [k \in 1 .. n |-> 255 + k]

\* ab, abcdef, &1#, a, the empty string, aba, the digits, and 256 and 257
\* distinct characters
Charsets ==
    {<<97, 98>>, <<97, 98, 99, 100, 101, 102>>, <<38, 49, 35>>, <<97>>, <<>>,
     <<97, 98, 97>>, DIGIT_CHARSET, Wide(256), Wide(257)}

\* 123, !@#$%, aba, !
Overrides ==
    {Override(<<49, 50, 51>>), Override(<<33, 64, 35, 36, 37>>),
     Override(<<97, 98, 97>>), Override(<<33>>)}

InitGenerate ==
    \/ \E length \in -1 .. MaxLen, charset \in Charsets :
           Start([fn |-> "generateCharacters", length |-> length, charset |-> charset])
    \/ \E length \in -1 .. MaxLen :
           Start([fn |-> "generatePin", length |-> length])

InitOverride ==
    \E length \in -1 .. MaxLen, c \in Categories, charset \in Overrides,
       option \in {True, Exact(1), AtLeast(1)},
       others \in [Categories -> {True, False}] :
        Start([fn |-> "generatePassword", length |-> length,
               options |-> [others EXCEPT ![c] = option],
               charset |-> [NoCharsetOption EXCEPT ![c] = charset]])

InitCharacters == InitGenerate \/ InitOverride

NextCharacters ==
    \/ generateCharacters
    \/ generatePin
    \/ generatePassword
    \/ getRandomValueInRange(SampleBytes)
    \/ index_randomizeCharacters
    \/ swap

SpecCharacters == InitCharacters /\ [][NextCharacters]_vars

\* -1, {min: -1}, '%@', 0.5, 1.5, {min: 0.5}
UnusualOptionValues ==
    {Exact(-1), AtLeast(-1), String, Fraction("number", 0), Fraction("number", 1),
     Fraction("object", 0)}

InitOptions ==
    \E length \in 0 .. MaxLen, c \in Categories, option \in UnusualOptionValues,
       others \in [Categories -> {True, False, Exact(1)}] :
        Start([fn |-> "generatePassword", length |-> length,
               options |-> [others EXCEPT ![c] = option],
               charset |-> NoCharsetOption])

SpecOptions == InitOptions /\ [][NextPassword]_vars

\* The samplers and the character generators under a byte source that does not
\* return rejected candidates forever: a call that can take a step takes one.
\* generatePassword(length) with the default options
InitDefault ==
    \E length \in 1 .. MaxLen :
        Start([fn |-> "generatePassword", length |-> length,
               options |-> [c \in Categories |-> Undefined],
               charset |-> NoCharsetOption])

InitFair == InitRange \/ InitGenerate \/ InitDefault

NextFair == NextRange \/ NextCharacters

SpecFair == InitFair /\ [][NextFair]_vars /\ WF_vars(NextFair)

\* The composition of a password for the category specs false, true, 0, {min: 0},
\* 1 and {min: 1}, fed the smallest and the largest byte.
ComposeBytes == {0, 255}

ComposeValues == {False, True, Exact(0), AtLeast(0), Exact(1), AtLeast(1)}

InitCompose ==
    \E length \in 1 .. MaxLen, options \in [Categories -> ComposeValues] :
        Start([fn |-> "generatePassword", length |-> length, options |-> options,
               charset |-> NoCharsetOption])

NextCompose ==
    \/ generatePassword
    \/ generateCharacters
    \/ getRandomValueInRange(ComposeBytes)
    \/ index_randomizeCharacters
    \/ swap

SpecCompose == InitCompose /\ [][NextCompose]_vars

\* getRandomValues of random.ts for range maxima below, at and above the one-byte
\* limit, and for 1, which is no range
RangeMaxima == {1, 2, 10, 31, 255, 256, 257}

InitValues ==
    \E numValues \in -1 .. MaxValues, rangeMax \in RangeMaxima :
        Start([fn |-> "getRandomValues", numValues |-> numValues, rangeMax |-> rangeMax])

NextValues ==
    \/ random_getRandomValues
    \/ getRandomBytes(SampleBytes)
    \/ getOneByteRandomInteger(SampleBytes)

SpecValues == InitValues /\ [][NextValues]_vars

\* ab cd; a bc #; one word; no word; 300 one-character words
Wordlists ==
    {<<<<97, 98>>, <<99, 100>>>>, <<<<97>>, <<98, 99>>, <<35>>>>, <<<<97, 98>>>>, <<>>,
     [k \in 1 .. 300 |-> <<255 + k>>]}

\* no separator given, '_', the empty string, and a number
Separators == {NoSeparator, Separator(<<95>>), Separator(<<>>), Option("number", 1)}

InitPassphrase ==
    \E length \in 0 .. MaxLen, wordlist \in Wordlists, sep \in Separators :
        Start([fn |-> "generatePassphrase", length |-> length,
               wordlist |-> wordlist, sep |-> sep])

NextPassphrase ==
    \/ generatePassphrase
    \/ getOneByteRandomInteger(SampleBytes)
    \/ getTwoByteRandomInteger(SampleBytes)

SpecPassphrase == InitPassphrase /\ [][NextPassphrase]_vars

Init == InitPassword \/ InitRange \/ InitShuffle \/ InitCharacters \/ InitOptions
        \/ InitPassphrase \/ InitCompose \/ InitValues

Next == NextPassword \/ NextRange \/ NextShuffle \/ NextCharacters \/ NextPassphrase
        \/ NextCompose \/ NextValues

Spec == Init /\ [][Next]_vars

----------------------------------------------------------------------------
(* What the claims speak of *)

\* the category spec of the request, a missing one being Include
SpecOf(c) == IF call.options[c].type = "undefined" THEN True ELSE call.options[c]

\* Exclude -> (0, false); Include -> (0, true); Exact(n) -> (n, false); AtLeast(n) -> (n, true)
GuaranteedCount(c) == IF SpecOf(c).type = "boolean" THEN 0 ELSE SpecOf(c).val
EligibleForMore(c) == SpecOf(c) = True \/ SpecOf(c).type = "object"

GuaranteedSum ==
    GuaranteedCount("digits") + GuaranteedCount("symbols")
    + GuaranteedCount("lowercase") + GuaranteedCount("uppercase")

NoneEligible == \A c \in Categories : ~EligibleForMore(c)

DefaultCharset(c) ==
    CASE c = "digits" -> SetOf(DIGIT_CHARSET)
      [] c = "symbols" -> SetOf(SYMBOL_CHARSET)
      [] c = "lowercase" -> SetOf(LOWERCASE_CHARSET)
      [] c = "uppercase" -> SetOf(UPPERCASE_CHARSET)

PasswordCall == call.fn = "generatePassword"
PasswordReturned == PasswordCall /\ pc = "return"

LengthMismatchErrors ==
    {<<"Invalid option: Requested characters exceeds expected length">>,
     <<"Invalid option: Requested less characters than expected length">>}

----------------------------------------------------------------------------
(* Claims *)

\* C1: for every length L >= 1 and every request whose guaranteed counts sum to at
\* most L (exactly L when no category is eligible for filler), generatePassword
\* does not fail, and the password it returns has exactly L characters.
C1_AcceptableRequestSucceeds ==
    ( /\ PasswordCall
      /\ call.length >= 1
      /\ GuaranteedSum <= call.length
      /\ NoneEligible => GuaranteedSum = call.length )
    => /\ pc # "throw"
       /\ pc = "return" => Len(ret) = call.length

\* C2: a password returned for a request in which a category's spec is the number n
\* holds exactly n characters of that category's default charset.
C2_ExactCount ==
    PasswordReturned =>
        \A c \in Categories :
            SpecOf(c).type = "number" => CountIn(ret, DefaultCharset(c)) = SpecOf(c).val

\* a password of two characters was returned for a request asking exactly one
\* character of some category
C2_Witness ==
    /\ PasswordReturned
    /\ Len(ret) = 2
    /\ \E c \in Categories : SpecOf(c) = Exact(1) /\ CountIn(ret, DefaultCharset(c)) = 1

\* C3: a password returned for a request in which a category's spec is {min: n}
\* holds at least n characters of that category's charset.
C3_MinimumCount ==
    PasswordReturned =>
        \A c \in Categories :
            SpecOf(c).type = "object" => CountIn(ret, DefaultCharset(c)) >= SpecOf(c).val

\* a password was returned for a request mixing {min: 1} on one category with an
\* exact count on another
C3_Witness ==
    /\ PasswordReturned
    /\ \E c, d \in Categories :
          /\ SpecOf(c) = AtLeast(1)
          /\ SpecOf(d) = Exact(1)
          /\ CountIn(ret, DefaultCharset(c)) >= 1

\* C4: every character of a returned password belongs to the charset of a category
\* whose spec is not false, and a category set to false contributes no character.
C4_OnlyIncludedCategories ==
    PasswordReturned =>
        /\ \A k \in DOMAIN ret :
              \E c \in Categories : SpecOf(c) # False /\ ret[k] \in DefaultCharset(c)
        /\ \A c \in Categories : SpecOf(c) = False => CountIn(ret, DefaultCharset(c)) = 0

\* a password was returned for a request that excludes three categories
C4_Witness ==
    /\ PasswordReturned
    /\ Cardinality({c \in Categories : SpecOf(c) = False}) = 3
    /\ Len(ret) = call.length

\* C5: a request in which no category is eligible for filler and whose guaranteed
\* counts sum to exactly length is accepted, and the password returned has exactly
\* length characters with the requested count of each category.
C5_AllExactAccepted ==
    (PasswordCall /\ call.length >= 1 /\ NoneEligible /\ GuaranteedSum = call.length)
    => /\ pc # "throw"
       /\ pc = "return" =>
             /\ Len(ret) = call.length
             /\ \A c \in Categories : CountIn(ret, DefaultCharset(c)) = GuaranteedCount(c)

RangeCall == call.fn = "getRandomNumbersInRange"

ValidRange ==
    /\ call.length >= 1
    /\ call.start >= 0
    /\ call.end <= 65536
    /\ call.end - call.start >= 2

\* the candidates c of [0, domain) with c mod rangeSize = r
ResidueClass(r, rangeSize, domain) ==
    {(k * rangeSize) + r : k \in 0 .. ((domain - 1 - r) \div rangeSize)}

\* C7: for length >= 1, start >= 0, end <= 65536 and end - start >= 2,
\* getRandomNumbersInRange does not fail, every value it produces lies in
\* [start, end), and the list it returns has exactly length values.
C7_ValuesInRange ==
    (RangeCall /\ ValidRange)
    => /\ pc # "throw"
       /\ \A k \in DOMAIN values : call.start <= values[k] /\ values[k] < call.end
       /\ pc = "return" =>
             /\ Len(ret) = call.length
             /\ \A k \in DOMAIN ret : call.start <= ret[k] /\ ret[k] < call.end

\* two values of a two-byte range were returned after a candidate was discarded
C7_Witness ==
    /\ RangeCall
    /\ pc = "return"
    /\ call.start = 11
    /\ call.end = 50000
    /\ Len(ret) = 2
    /\ rejected > 0

\* C8: with rangeSize = end - start and domain = 256 or 65536, the candidates the
\* sampler accepts are those below rangeSize * floor(domain / rangeSize), and every
\* value of [start, end) is the output start + (c mod rangeSize) of exactly
\* floor(domain / rangeSize) accepted candidates c of [0, domain); the one-byte
\* sampler getRandomValueInRange does the same in its domain of 256.  Stated of a
\* call for one value once it has handled a candidate.
C8_EqualOrigins ==
    (RangeCall /\ call.length = 1 /\ drawn > 0)
    => LET rangeSize == call.end - call.start
           domain == IF rangeSize > 256 THEN 65536 ELSE 256
           Origins(v) ==
               {c \in ResidueClass(v - call.start, rangeSize, domain) :
                   /\ c < randomNumberMax(rangeSize, maxValueFor(rangeSize))
                   /\ call.start + (c % rangeSize) = v}
           ByteOrigins(v) ==
               {c \in AllBytes :
                   /\ c < byteRangeMax(rangeSize)
                   /\ call.start + (c % rangeSize) = v}
       IN  /\ maxValueFor(rangeSize) = domain
           /\ randomNumberMax(rangeSize, domain) = rangeSize * (domain \div rangeSize)
           /\ \A v \in call.start .. (call.end - 1) :
                 Cardinality(Origins(v)) = domain \div rangeSize
           /\ rangeSize <= 256 =>
                 \A v \in call.start .. (call.end - 1) :
                     Cardinality(ByteOrigins(v)) = 256 \div rangeSize

\* a call for one value of a range whose size does not divide the domain returned
\* after a candidate was discarded
C8_Witness ==
    /\ RangeCall
    /\ call.length = 1
    /\ pc = "return"
    /\ rejected = 1
    /\ 65536 % (call.end - call.start) # 0
    /\ call.end - call.start > 256

C10_ShortStringUnchanged ==
    ( /\ call.fn \in {"randomizeCharacters", "index.randomizeCharacters"}
      /\ Len(call.characters) < 2
      /\ pc # "call" )
    => /\ pc = "return"
       /\ ret = call.characters
       /\ drawn = 0

CharactersCall == call.fn = "generateCharacters"

\* C11: for every length >= 0 and every charset of 2 to 65536 distinct characters,
\* generateCharacters does not fail and returns exactly length characters, the i-th
\* being charset[k_i] for the i-th sample k_i of [0, charset.length), in draw
\* order; for length 0 it returns the empty string and draws no byte.
C11_CharactersInDrawOrder ==
    ( /\ CharactersCall
      /\ call.length >= 0
      /\ Len(call.charset) >= 2
      /\ Len(call.charset) <= 65536
      /\ ~HasDuplicates(call.charset) )
    => /\ pc # "throw"
       /\ pc = "return" =>
             /\ Len(ret) = call.length
             /\ Len(values) = call.length
             /\ \A k \in DOMAIN ret :
                   /\ values[k] \in 0 .. (Len(call.charset) - 1)
                   /\ ret[k] = call.charset[values[k] + 1]
       /\ (call.length = 0 /\ pc # "call") =>
             /\ pc = "return"
             /\ ret = <<>>
             /\ drawn = 0

\* the request names a charset with a repeated character for some category
DuplicateOverride ==
    \E c \in Categories : call.charset[c].given /\ HasDuplicates(call.charset[c].chars)

\* C12: a charset with a repeated character is rejected with an invalid-charset
\* error, before any byte is drawn and without output, as the charset argument of
\* generateCharacters (length >= 0) and as a category's charset in the options of
\* generatePassword (the request being valid otherwise).
C12_DuplicateCharsetRejected ==
    /\ ( /\ CharactersCall
         /\ pc # "call"
         /\ call.length >= 0
         /\ HasDuplicates(call.charset) )
       => /\ pc = "throw"
          /\ ret = <<>>
          /\ drawn = 0
    /\ ( /\ PasswordCall
         /\ pc # "call"
         /\ validatePasswordOptions(call.length, WithDefaults(call.options)) = NoError
         /\ DuplicateOverride )
       => /\ pc = "throw"
          /\ err # NoError
          /\ err[1] = "Invalid charset option: "
          /\ ret = <<>>
          /\ drawn = 0

\* C13: in every call of generatePassword, generatePin, generateCharacters,
\* randomizeCharacters and getRandomNumbersInRange an error is raised only before
\* the first byte is drawn: a call that has ended in an error has drawn no byte and
\* produced no output.
C13_ErrorsBeforeFirstByte ==
    pc = "throw" => (drawn = 0 /\ ret = <<>>)

\* at least half of the candidates of the domain are below the cutoff
HalfAccepted(rangeSize) ==
    /\ 2 * randomNumberMax(rangeSize, maxValueFor(rangeSize)) >= maxValueFor(rangeSize)
    /\ rangeSize <= 256 => 2 * byteRangeMax(rangeSize) >= 256

\* C14: for every range size of 2..65536 at least half of the candidates of
\* [0, domain) are accepted (2 * cutoff >= domain, domain 256 up to 256 and 65536
\* above); and under a byte source that does not return rejected candidates
\* forever every rejection loop that is entered is left and every call ends.
C14_LoopsTerminate ==
    /\ []((RangeCall /\ pc = "call" /\ call.length = 1)
            => \A rangeSize \in 2 .. 65536 : HalfAccepted(rangeSize))
    /\ [](pc = "sample" => HalfAccepted(sampling.end - sampling.start))
    /\ (pc = "sample") ~> (pc # "sample")
    /\ <>(pc \in {"return", "throw"})

\* a sampler loop over a range of 49989 values, a little more than half of its
\* domain, was left after as many rejections as the model follows
C14_Witness ==
    /\ RangeCall
    /\ pc = "return"
    /\ call.end - call.start = 49989
    /\ rejected = MaxRejects
    /\ Len(ret) = call.length

\* C15: getRandomNumbersInRange(length, start, end) fails with an error, returns
\* no values and draws no byte whenever length < 1, start < 0, end > 65536 or
\* end - start < 2.
C15_InvalidRangeRejected ==
    ( /\ RangeCall
      /\ pc # "call"
      /\ \/ call.length < 1
         \/ call.start < 0
         \/ call.end > 65536
         \/ call.end - call.start < 2 )
    => /\ pc = "throw"
       /\ err # NoError
       /\ ret = <<>>
       /\ values = <<>>
       /\ drawn = 0

\* a call with a negative start and a positive length was rejected
C15_Witness ==
    /\ RangeCall
    /\ pc = "throw"
    /\ call.length >= 1
    /\ call.start < 0
    /\ err = <<"Invalid argument: start must be a number greater than or equal to 0">>

\* C16: the range sampler draws one byte per candidate when end - start <= 256
\* and two bytes per candidate otherwise; the two-byte candidate is 256 * b1 + b2,
\* lies in [0, 65536), and every value of [0, 65536) comes from exactly one pair
\* of bytes (b1, b2).
C16_BytesPerCandidate ==
    RangeCall
    => /\ drawn = (IF call.end - call.start <= 256 THEN 1 ELSE 2) * (Len(values) + rejected)
       /\ (call.length = 1 /\ pc = "sample" /\ rejected > 0 /\ call.end - call.start > 256)
          => /\ \A b1, b2 \in AllBytes :
                   /\ TwoByteInteger(b1, b2) = (256 * b1) + b2
                   /\ TwoByteInteger(b1, b2) \in 0 .. 65535
             /\ Cardinality({TwoByteInteger(b1, b2) : b1, b2 \in AllBytes}) = 65536

\* two values of a range of 257 values were returned, one candidate having been
\* discarded: three candidates of two bytes each
C16_Witness ==
    /\ RangeCall
    /\ pc = "return"
    /\ call.start = 0
    /\ call.end = 257
    /\ Len(ret) = 2
    /\ rejected = 1
    /\ drawn = 6

\* a category spec that is a boolean, a non-negative integer or {min: m} with m a
\* non-negative integer (or is absent)
WellFormed(option) ==
    \/ option.type \in {"boolean", "undefined"}
    \/ option.type \in {"number", "object"} /\ option.half = 0 /\ option.val >= 0

\* the errors of validatePasswordOption
CategorySpecError ==
    /\ Len(err) = 3
    /\ err[1] = "Invalid option: "
    /\ err[2] \in Categories

\* C17: generatePassword (length >= 1) rejects, with an invalid-category-spec error
\* and no output, every request in which the spec of some category is not a
\* boolean, a non-negative integer or {min: m} with m a non-negative integer: a
\* negative number, {min: negative}, a non-integer number, a string.
C17_MalformedOptionRejected ==
    ( /\ PasswordCall
      /\ pc # "call"
      /\ call.length >= 1
      /\ \E c \in Categories : ~WellFormed(call.options[c]) )
    => /\ pc = "throw"
       /\ CategorySpecError
       /\ ret = <<>>
       /\ drawn = 0

\* the errors the generators give for a length or a charset out of bounds
InvalidArgumentErrors ==
    {<<"Invalid option: length option must be a number greater than or equal to 1">>,
     <<"Invalid argument: length argument must be a number greater than or equal to 1">>,
     <<"Invalid argument: length argument must be a number greater than or equal to 0">>,
     <<"Invalid argument: charset argument must be a string with length greater than or equal to 2">>}

\* C18: generatePassword and generatePin reject every length < 1, generateCharacters
\* rejects every length < 0 and every charset of fewer than 2 characters; each
\* rejection is an invalid-argument error, with no output and no byte drawn.
C18_InvalidArgumentsRejected ==
    ( /\ pc # "call"
      /\ \/ call.fn \in {"generatePassword", "generatePin"} /\ call.length < 1
         \/ CharactersCall /\ call.length < 0
         \/ CharactersCall /\ Len(call.charset) < 2 )
    => /\ pc = "throw"
       /\ err \in InvalidArgumentErrors
       /\ ret = <<>>
       /\ drawn = 0

\* generatePin(0) was rejected
C18_Witness ==
    /\ call.fn = "generatePin"
    /\ call.length = 0
    /\ pc = "throw"
    /\ err = <<"Invalid argument: length argument must be a number greater than or equal to 1">>

\* C19: for every length >= 1, generatePin(length) does not fail and returns
\* exactly length characters, each a digit of DIGIT_CHARSET; what it returns is
\* what generateCharacters(length, DIGIT_CHARSET) makes of the same bytes, and a
\* generateCharacters(length, DIGIT_CHARSET) call returns just that.
C19_PinIsDigitCharacters ==
    /\ (call.fn = "generatePin" /\ call.length >= 1)
       => /\ pc # "throw"
          /\ pc = "return" =>
                /\ Len(ret) = call.length
                /\ \A k \in DOMAIN ret : ret[k] \in 48 .. 57
                /\ \A k \in DOMAIN ret : ret[k] \in SetOf(DIGIT_CHARSET)
                /\ ret = generateCharactersOn(stream, call.length, DIGIT_CHARSET)
    /\ (CharactersCall /\ call.charset = DIGIT_CHARSET /\ pc = "return")
       => ret = generateCharactersOn(stream, call.length, DIGIT_CHARSET)

\* a pin of two different digits was returned after one byte was discarded
C19_Witness ==
    /\ call.fn = "generatePin"
    /\ pc = "return"
    /\ Len(ret) = 2
    /\ ret[1] # ret[2]
    /\ Len(stream) = 3
    /\ rejected = 1

\* the characters a category may give: those of its charset override when the
\* request has one, of its standard charset otherwise
RequestedCharset(c) ==
    IF call.charset[c].given THEN SetOf(call.charset[c].chars) ELSE DefaultCharset(c)

PassphraseCall == call.fn = "generatePassphrase"

\* where the k-th of `words`, joined by a separator of sepLen code units, starts
RECURSIVE Offset(_, _, _)
Offset(words, sepLen, k) ==
    IF k = 1 THEN 0
    ELSE Offset(words, sepLen, k - 1) + Len(words[k - 1]) + sepLen

\* C21: for every length >= 1, every wordlist of at least 2 words and every string
\* separator ('-' by default, the empty string allowed), generatePassphrase returns
\* exactly length words, the k-th being the word of the wordlist at the k-th index
\* drawn, an index in [0, wordlist.length), joined by the separator, with no
\* separator before the first word or after the last.
C21_PassphraseOfDrawnWords ==
    ( /\ PassphraseCall
      /\ call.length >= 1
      /\ Len(call.wordlist) >= 2
      /\ call.sep.type \in {"undefined", "string"} )
    => /\ pc # "throw"
       /\ pc = "return" =>
            /\ Len(values) = call.length
            /\ \A k \in 1 .. call.length : values[k] \in 0 .. Len(call.wordlist) - 1
            /\ LET sep == IF call.sep.type = "undefined" THEN <<45>> ELSE call.sep.chars
                   words == [k \in 1 .. call.length |-> call.wordlist[values[k] + 1]]
                   start(k) == Offset(words, Len(sep), k)
               IN  /\ Len(ret) = start(call.length) + Len(words[call.length])
                   /\ \A k \in 1 .. call.length :
                        SubSeq(ret, start(k) + 1, start(k) + Len(words[k])) = words[k]
                   /\ \A k \in 1 .. call.length - 1 :
                        SubSeq(ret, start(k) + Len(words[k]) + 1, start(k + 1)) = sep

\* generatePassphrase(2, ['a', 'bc', '#'], '_') has returned bc_a
C21_Witness ==
    /\ PassphraseCall
    /\ pc = "return"
    /\ call.length = 2
    /\ call.sep = Separator(<<95>>)
    /\ values = <<1, 0>>
    /\ ret = <<98, 99, 95, 97>>

ShuffleCall == call.fn \in {"randomizeCharacters", "index.randomizeCharacters"}

\* the first k of the swaps (0, j_0), (1, j_1), ... applied to characters, js being
\* the list of the j
RECURSIVE SwapsApplied(_, _, _)
SwapsApplied(characters, js, k) ==
    IF k = 0 THEN characters
    ELSE LET before == SwapsApplied(characters, js, k - 1)
         IN  [p \in 1 .. Len(characters) |->
                 IF p = k THEN before[js[k] + 1]
                 ELSE IF p = js[k] + 1 THEN before[k]
                 ELSE before[p]]

\* C22: for an input of n >= 2 characters randomizeCharacters first draws n indices
\* j_0 .. j_(n-1), each in [0, n), the input staying as it is meanwhile, and only
\* then swaps positions i and j_i for i = 0, 1, ..., n-1 in that order; what it
\* returns is the input with that sequence of swaps applied.
C22_DrawThenSwap ==
    (ShuffleCall /\ Len(call.characters) >= 2)
    => LET n == Len(call.characters)
       IN  /\ pc = "sample" =>
                /\ result = call.characters
                /\ Len(values) < n
                /\ i = 0
           /\ pc \in {"swap", "return"} =>
                /\ Len(values) = n
                /\ \A k \in 1 .. n : values[k] \in 0 .. n - 1
           /\ pc = "swap" =>
                /\ i \in 0 .. n - 1
                /\ result = SwapsApplied(call.characters, values, i)
           /\ pc = "return" => ret = SwapsApplied(call.characters, values, n)

\* randomizeCharacters('ab#') drew the indices 1, 2, 0 and returned 'a#b': the
\* swaps (0,1), (1,2), (2,0) in that order give 'ba#', 'b#a', 'a#b'
C22_Witness ==
    /\ call.fn = "randomizeCharacters"
    /\ call.characters = <<97, 98, 35>>
    /\ pc = "return"
    /\ values = <<1, 2, 0>>
    /\ ret = <<97, 35, 98>>

\* the swap loop of randomizeCharacters run for its first k passes on the swap
\* indices js
RECURSIVE Shuffled(_, _, _)
Shuffled(characters, js, k) ==
    IF k = 0 THEN characters
    ELSE Swap(Shuffled(characters, js, k - 1), k - 1, js[k])

\* the n^n lists of swap indices for a string of n characters
IndexSequences(n) == [1 .. n -> 0 .. n - 1]

\* the orderings the swap loop produces from characters, and how many of the
\* lists of swap indices produce a given one
Orderings(characters) ==
    {Shuffled(characters, js, Len(characters)) : js \in IndexSequences(Len(characters))}
Occurrences(characters, ordering) ==
    Cardinality({js \in IndexSequences(Len(characters)) :
                    Shuffled(characters, js, Len(characters)) = ordering})

DistinctCharacters == Cardinality(SetOf(call.characters)) = Len(call.characters)

\* C23: the shuffle is not a uniform permutation.  For an input of n >= 3 distinct
\* characters, the ordering randomizeCharacters returns is the one its n swap indices
\* give, and among the n^n lists of swap indices the number that give it differs from
\* the number that give some other ordering.
C23_NotUniform ==
    ( /\ ShuffleCall
      /\ Len(call.characters) >= 3
      /\ DistinctCharacters
      /\ pc = "return" )
    => /\ ret = Shuffled(call.characters, values, Len(values))
       /\ \E other \in Orderings(call.characters) :
              Occurrences(call.characters, other) # Occurrences(call.characters, ret)

\* randomizeCharacters('ab#') returned 'ab#', which 4 of the 27 lists of swap
\* indices give, while 5 of them give 'a#b'
C23_Witness ==
    /\ call.fn = "randomizeCharacters"
    /\ call.characters = <<97, 98, 35>>
    /\ pc = "return"
    /\ ret = <<97, 98, 35>>
    /\ Cardinality(IndexSequences(3)) = 27
    /\ Cardinality(Orderings(call.characters)) = 6
    /\ Occurrences(call.characters, ret) = 4
    /\ Occurrences(call.characters, <<97, 35, 98>>) = 5

\* the charsets of the categories that are eligible for more, together
FillCharset == UNION {DefaultCharset(c) : c \in {k \in Categories : EligibleForMore(k)}}

\* s begins with the guaranteed characters of digits, then of symbols, of lowercase
\* and of uppercase, each of its category's charset, and goes on with characters of
\* the fill charset
ComposedPrefix(s) ==
    LET d == GuaranteedCount("digits")
        y == d + GuaranteedCount("symbols")
        l == y + GuaranteedCount("lowercase")
        u == l + GuaranteedCount("uppercase")
    IN  \A k \in 1 .. Len(s) :
            s[k] \in (IF k <= d THEN DefaultCharset("digits")
                      ELSE IF k <= y THEN DefaultCharset("symbols")
                      ELSE IF k <= l THEN DefaultCharset("lowercase")
                      ELSE IF k <= u THEN DefaultCharset("uppercase")
                      ELSE FillCharset)

\* the guaranteed characters and length - sum(guaranteed counts) fill characters
Composed(s) == Len(s) = call.length /\ ComposedPrefix(s)

Rearrangements(n) == {p \in [1 .. n -> 1 .. n] : \A a, b \in 1 .. n : p[a] = p[b] => a = b}

\* C24: the password generatePassword returns is a permutation of the concatenation
\* of the guaranteed characters of each category, generated in the order digits,
\* symbols, lowercase, uppercase, each of its category's charset, and of exactly
\* length - sum(guaranteed counts) fill characters of the charsets of the categories
\* eligible for more; that concatenation is complete when the shuffle starts, and
\* the shuffle is the last step.
C24_ShuffledComposition ==
    PasswordCall
    => /\ (pc \in {"generateCharacters", "sample"} /\ stage \in 1 .. 5) =>
             /\ ComposedPrefix(result)
             /\ Len(result) <= call.length
       /\ pc = "randomizeCharacters" => (stage = 6 /\ Composed(result))
       /\ (stage = 6 /\ pc \in {"sample", "swap", "return"}) =>
             \E p \in Rearrangements(Len(result)) :
                 Composed([k \in 1 .. Len(result) |-> result[p[k]]])
       /\ pc = "return" =>
             /\ stage = 6
             /\ Len(values) = call.length
             /\ ret = result

\* generatePassword(2, {digits: 1, lowercase: true, symbols: false, uppercase: false})
\* generated '0' then 'a', and the shuffle returned 'a0'
C24_Witness ==
    /\ PasswordReturned
    /\ call.length = 2
    /\ call.options = [digits |-> Exact(1), symbols |-> False,
                       lowercase |-> True, uppercase |-> False]
    /\ ret = <<97, 48>>

\* C25: a request in which each of the four categories is false or the number 0 is
\* rejected with a length-mismatch error for every length >= 1, before any byte is
\* drawn: generatePassword never returns a password when no category can contribute
\* a character.
C25_NothingToContribute ==
    ( /\ PasswordCall
      /\ call.length >= 1
      /\ \A c \in Categories : call.options[c] \in {False, Exact(0)} )
    => /\ pc \in {"call", "throw"}
       /\ pc = "throw" => (err \in LengthMismatchErrors /\ drawn = 0)

\* generatePassword(2, {digits: false, symbols: 0, lowercase: false, uppercase: 0})
\* was rejected
C25_Witness ==
    /\ PasswordCall
    /\ call.length = 2
    /\ call.options = [digits |-> False, symbols |-> Exact(0),
                       lowercase |-> False, uppercase |-> Exact(0)]
    /\ pc = "throw"
    /\ err = <<"Invalid option: Requested less characters than expected length">>

\* 0 for false, false for 0, {min: 0} for true, true for {min: 0}
Twin(option) ==
    IF option = Exact(0) THEN False
    ELSE IF option = False THEN Exact(0)
    ELSE IF option = AtLeast(0) THEN True
    ELSE IF option = True THEN AtLeast(0)
    ELSE option

\* C26: for each category the spec 0 behaves exactly like false and {min: 0} exactly
\* like true.  At every step of a call, the request with one category's spec
\* replaced by its twin gives what the request gives wherever the code reads the
\* options: the same validation result (accepted, or the same error), and for the
\* generateCharacters call at hand the same charset, the same length and the same
\* number of draws, so that the same bytes give the same password.
C26_ZeroLikeFalseMinZeroLikeTrue ==
    PasswordCall
    => \A c \in Categories :
          LET options == WithDefaults(call.options)
              twin == [options EXCEPT ![c] = Twin(options[c])]
          IN  /\ validatePasswordOptions(call.length, twin)
                    = validatePasswordOptions(call.length, options)
              /\ (pc = "throw" /\ stage = 0) =>
                    err = validatePasswordOptions(call.length, twin)
              /\ stage \in 1 .. 5 =>
                    /\ validatePasswordOptions(call.length, twin) = NoError
                    /\ StageCharset(stage, twin) = StageCharset(stage, options)
                    /\ StageLength(stage, twin, call.length, Len(result))
                          = StageLength(stage, options, call.length, Len(result))
                    /\ StageDraws(stage, twin, call.length, Len(result))
                          = StageDraws(stage, options, call.length, Len(result))

\* generatePassword(2, {digits: 0, lowercase: {min: 0}, symbols: false,
\* uppercase: false}) returned a password, of lowercase letters only
C26_Witness ==
    /\ PasswordReturned
    /\ call.length = 2
    /\ call.options = [digits |-> Exact(0), symbols |-> False,
                       lowercase |-> AtLeast(0), uppercase |-> False]
    /\ \A k \in 1 .. 2 : ret[k] \in DefaultCharset("lowercase")

DefaultCharsets == {DIGIT_CHARSET, LOWERCASE_CHARSET, UPPERCASE_CHARSET, SYMBOL_CHARSET}

\* C27: DIGIT_CHARSET, LOWERCASE_CHARSET, UPPERCASE_CHARSET and SYMBOL_CHARSET each
\* hold no character twice and no two of them share a character; so every character
\* of a password of the default charsets belongs to exactly one category, and a
\* category that is a number or false has exactly its guaranteed count of the
\* password's characters, fill characters never adding to it.
C27_DefaultCharsetsDisjoint ==
    /\ \A s \in DefaultCharsets : ~HasDuplicates(s)
    /\ \A s, t \in DefaultCharsets : s # t => SetOf(s) \cap SetOf(t) = {}
    /\ Cardinality(DefaultCharsets) = 4
    /\ PasswordReturned =>
          /\ \A k \in 1 .. Len(ret) :
                Cardinality({c \in Categories : ret[k] \in DefaultCharset(c)}) = 1
          /\ \A c \in Categories :
                ~EligibleForMore(c) => CountIn(ret, DefaultCharset(c)) = GuaranteedCount(c)

\* generatePassword(2, {uppercase: 1, symbols: {min: 0}, digits: false,
\* lowercase: false}) returned one uppercase letter and one symbol, the fill
C27_Witness ==
    /\ PasswordReturned
    /\ call.length = 2
    /\ call.options = [digits |-> False, symbols |-> AtLeast(0),
                       lowercase |-> False, uppercase |-> Exact(1)]
    /\ CountIn(ret, DefaultCharset("uppercase")) = 1
    /\ CountIn(ret, DefaultCharset("symbols")) = 1

ValuesCall == call.fn = "getRandomValues"

\* C28: for every n >= 1 and every rangeMax with 2 <= rangeMax <= 256, the deprecated
\* getRandomValues(n, rangeMax) does what getRandomNumbersInRange(n, 0, rangeMax)
\* does with the same bytes: both accept the arguments, and after every byte the
\* values getRandomValues has are those getRandomNumbersInRange makes of the bytes
\* drawn so far, all of them used; so the n values returned and the bytes consumed
\* are the same.  For rangeMax = 256 getRandomValues returns the bytes as they are.
C28_SameAsNumbersInRange ==
    (ValuesCall /\ call.numValues >= 1 /\ call.rangeMax \in 2 .. 256)
    => LET same == getRandomNumbersInRangeOn(stream, call.numValues, 0, call.rangeMax)
       IN  /\ pc # "throw"
           /\ getRandomNumbersInRangeError(call.numValues, 0, call.rangeMax) = NoError
           /\ drawn = Len(stream)
           /\ same.used = Len(stream)
           /\ pc = "sample" => (values = same.values /\ Len(values) < call.numValues)
           /\ pc = "return" => (ret = same.values /\ Len(ret) = call.numValues)
           /\ (pc = "return" /\ call.rangeMax = 256) => ret = stream

\* getRandomValues(2, 256) returned the bytes 255 and 0 it drew
C28_Witness ==
    /\ ValuesCall
    /\ call.numValues = 2
    /\ call.rangeMax = 256
    /\ pc = "return"
    /\ ret = <<255, 0>>

\* the n! orderings of a string of n distinct characters
AllOrderings(characters) ==
    {[k \in 1 .. Len(characters) |-> characters[p[k]]] : p \in Rearrangements(Len(characters))}

RECURSIVE Factorial(_)
Factorial(n) == IF n = 0 THEN 1 ELSE n * Factorial(n - 1)

\* C29: for an input of n >= 2 distinct characters every one of the n! orderings is
\* produced by the swap loop of randomizeCharacters from some list of swap indices
\* j_0 .. j_(n-1) in [0, n), and the string a call returns is one of them: a
\* character can end at any position.
C29_EveryOrderingProduced ==
    (ShuffleCall /\ Len(call.characters) >= 2 /\ DistinctCharacters)
    => /\ Orderings(call.characters) = AllOrderings(call.characters)
       /\ Cardinality(Orderings(call.characters)) = Factorial(Len(call.characters))
       /\ pc = "return" =>
            /\ ret \in Orderings(call.characters)
            /\ ret = Shuffled(call.characters, values, Len(call.characters))

\* randomizeCharacters('ab#') returned '#ba', the first character last and the
\* last first
C29_Witness ==
    /\ call.fn = "randomizeCharacters"
    /\ call.characters = <<97, 98, 35>>
    /\ pc = "return"
    /\ ret = <<35, 98, 97>>

\* the call generates symbols first: no digit is asked for
SymbolsFirst == PasswordCall /\ GuaranteedCount("digits") = 0 /\ stage = 2

\* C30: the number of characters of SYMBOL_CHARSET evenly divides 256, so that a
\* symbol is sampled from one byte with the cutoff 256 and no byte is rejected.
C30_SymbolsDivide256 ==
    /\ MAXIMUM_ONE_BYTE_VALUE % Len(SYMBOL_CHARSET) = 0
    /\ (SymbolsFirst /\ pc = "sample") =>
          /\ byteRangeMax(sampling.end - sampling.start) = MAXIMUM_ONE_BYTE_VALUE
          /\ rejected = 0

\* The byte 255 drawn for a symbol was rejected: SYMBOL_CHARSET has 31 characters
\* and the cutoff is 248.
C30_SymbolByteRejected ==
    /\ SymbolsFirst
    /\ pc = "sample"
    /\ sampling.end = Len(SYMBOL_CHARSET)
    /\ byteRangeMax(sampling.end - sampling.start) = 248
    /\ rejected = 1

====
